---------------------------- MODULE Spec2Model ----------------------------
(***************************************************************************)
(* Model of fix-onconnected.py: a one-shot script that rewrites the        *)
(* chatClient.onConnected callback in three HTML files with re.sub.        *)
(*                                                                         *)
(* Text is a sequence of symbols.  A symbol is either one character that   *)
(* matters to the regular expression or to newline handling (a regex       *)
(* metacharacter, "\n", "\r", ";", ...) or a maximal run of other          *)
(* characters, so the 8-line block of the script is 46 symbols long.       *)
(* Two characters cannot be written in a TLA+ string: the check mark       *)
(* U+2713 is spelled U2713 and the backtick is the symbol "BQ".            *)
(***************************************************************************)
EXTENDS Integers, Sequences, FiniteSets

(***************************************************************************)
(* Bounds of the model.                                                    *)
(***************************************************************************)
\* most copies of the callback in the file whose content is varied
MaxCopies == 2
\* number of consecutive runs of the script
MaxRuns == 2

(***************************************************************************)
(* Program constants.                                                      *)
(***************************************************************************)
files_and_names ==
    << <<"grant-cards.html", "grant-cards">>,
       <<"etg-agent.html", "etg-writer">>,
       <<"canexport-claims.html", "canexport-claims">> >>

NumFiles == Len(files_and_names)

file_path(i) == files_and_names[i][1]

agent_name_fixed(i) == files_and_names[1][2]

agent_name(i) == files_and_names[i][2]

Paths == { file_path(i) : i \in 1..NumFiles }

\* what a single character is written as in an escaped regex element
Unescape(r) ==
    CASE r = "\\." -> "."
      [] r = "\\(" -> "("
      [] r = "\\)" -> ")"
      [] r = "\\{" -> "{"
      [] r = "\\}" -> "}"
      [] OTHER -> r

IsEscape(r) == r \in {"\\.", "\\(", "\\)", "\\{", "\\}"}

\* the symbols of the model that stand for exactly one character
OneChar == {".", "(", ")", "{", "}", ";", " ", "$", "BQ", "x", "\r", "\n"}

old_pattern_dot ==
    << "                chatClient", ".", "onConnected = ", "\\(", "data", "\\)", " => ", "\\{", "\n",
       "                    console", "\\.", "log", "\\(", "'U2713 Connected to agent:', data", "\\)", ";", "\n",
       "                    // Capture conversationId from backend", "\n",
       "                    if ", "\\(", "data", "\\.", "conversationId && !conversationId", "\\)", " ", "\\{", "\n",
       "                        conversationId = data", "\\.", "conversationId;", "\n",
       "                        console", "\\.", "log", "\\(", "'U2713 Captured conversationId from backend:', conversationId", "\\)", ";", "\n",
       "                    ", "\\}", "\n",
       "                ", "\\}", ";" >>

\* the raw regular expression, one element per symbol it consumes
old_pattern ==
    << "                chatClient", "\\.", "onConnected = ", "\\(", "data", "\\)", " => ", "\\{", "\n",
       "                    console", "\\.", "log", "\\(", "'U2713 Connected to agent:', data", "\\)", ";", "\n",
       "                    // Capture conversationId from backend", "\n",
       "                    if ", "\\(", "data", "\\.", "conversationId && !conversationId", "\\)", " ", "\\{", "\n",
       "                        conversationId = data", "\\.", "conversationId;", "\n",
       "                        console", "\\.", "log", "\\(", "'U2713 Captured conversationId from backend:', conversationId", "\\)", ";", "\n",
       "                    ", "\\}", "\n",
       "                ", "\\}", ";" >>

\* the callback as it stands in the HTML files: the text the pattern is written for
onConnectedBlock ==
    << "                chatClient", ".", "onConnected = ", "(", "data", ")", " => ", "{", "\n",
       "                    console", ".", "log", "(", "'U2713 Connected to agent:', data", ")", ";", "\n",
       "                    // Capture conversationId from backend", "\n",
       "                    if ", "(", "data", ".", "conversationId && !conversationId", ")", " ", "{", "\n",
       "                        conversationId = data", ".", "conversationId;", "\n",
       "                        console", ".", "log", "(", "'U2713 Captured conversationId from backend:', conversationId", ")", ";", "\n",
       "                    ", "}", "\n",
       "                ", "}", ";" >>

\* elements of the f-string: literal text, and a replacement field between two literals
L(s) == <<s, "", "">>

F(pre, post) == <<pre, "agent_name", post>>

new_callback_template ==
    << L("                chatClient"), L("."), L("onConnected = "), L("("), L("data"), L(")"), L(" => "), L("{{"), L("\n"),
       L("                    console"), L("."), L("log"), L("("), L("'U2713 Connected to agent:', data"), L(")"), L(";"), L("\n"),
       L("                    // Capture conversationId from backend"), L("\n"),
       L("                    if "), L("("), L("data"), L("."), L("conversationId && !conversationId"), L(")"), L(" "), L("{{"), L("\n"),
       L("                        conversationId = data"), L("."), L("conversationId;"), L("\n"),
       L("                        localStorage"), L("."), L("setItem"), L("("), F("'", "-conversation-id', conversationId"), L(")"), L(";"), L("\n"),
       L("                        console"), L("."), L("log"), L("("), L("'U2713 Captured conversationId from backend:', conversationId"), L(")"), L(";"), L("\n"),
       L("\n"),
       L("                        // Update URL to include conversationId "), L("("), L("for future refreshes"), L(")"), L("\n"),
       L("                        if "), L("("), L("isFirstMessage"), L(")"), L(" "), L("{{"), L("\n"),
       L("                            const newUrl = "), L("BQ"), F("/", "/chat/"), L("$"), L("{{"), L("conversationId"), L("}}"), L("BQ"), L(";"), L("\n"),
       L("                            window"), L("."), L("history"), L("."), L("pushState"), L("("), L("{{"), L("}}"), L(", '', newUrl"), L(")"), L(";"), L("\n"),
       L("                            console"), L("."), L("log"), L("("), L("'U2713 Updated URL to:', newUrl"), L(")"), L(";"), L("\n"),
       L("                        "), L("}}"), L("\n"),
       L("                    "), L("}}"), L("\n"),
       L("                "), L("}}"), L(";") >>

FormatElementRaw(e, name) ==
    IF e[2] = "agent_name" THEN e[1] \o name \o e[3] ELSE e[1]

\* f-string evaluation of one element: {{ and }} are literal braces, a field is the value
FormatElement(e, name) ==
    IF e[2] = "agent_name" THEN e[1] \o name \o e[3]
    ELSE IF e[1] = "{{" THEN "{"
    ELSE IF e[1] = "}}" THEN "}"
    ELSE e[1]

new_callback(name) ==
    [ j \in 1..Len(new_callback_template) |-> FormatElement(new_callback_template[j], name) ]

\* new_callback in each iteration of the loop
new_callbacks == [ i \in 1..NumFiles |-> new_callback(agent_name(i)) ]

(***************************************************************************)
(* re.sub(old_pattern, new_callback, content).  Every element of           *)
(* old_pattern consumes one symbol: an escaped metacharacter matches that  *)
(* character, an unescaped "." any character but a newline, anything else  *)
(* itself.  new_callback holds no backslash, so re.sub inserts it as is.   *)
(***************************************************************************)
ReMatch(r, t) ==
    IF IsEscape(r) THEN t = Unescape(r)
    ELSE IF r = "." THEN t \in OneChar /\ t # "\n"
    ELSE t = r

MatchAt(p, s, i) ==
    /\ i + Len(p) - 1 <= Len(s)
    /\ ReMatch(p[1], s[i])
    /\ \A j \in 1..Len(p) : ReMatch(p[j], s[i + j - 1])

Min(S) == CHOOSE x \in S : \A y \in S : x <= y

\* positions from i on where the pattern matches
MatchesFrom(p, s, i) == { k \in i..Len(s) : MatchAt(p, s, k) }

re_sub_first(p, r, s) ==
    IF MatchesFrom(p, s, 1) = {} THEN s
    ELSE LET m == Min(MatchesFrom(p, s, 1))
         IN  SubSeq(s, 1, m - 1) \o r \o SubSeq(s, m + Len(p), Len(s))

\* leftmost match first, the search resumes behind the match
RECURSIVE SubFrom(_, _, _, _)
SubFrom(p, r, s, i) ==
    IF MatchesFrom(p, s, i) = {} THEN SubSeq(s, i, Len(s))
    ELSE LET m == Min(MatchesFrom(p, s, i))
         IN  SubSeq(s, i, m - 1) \o r \o SubFrom(p, r, s, m + Len(p))

re_sub(p, r, s) == SubFrom(p, r, s, 1)

(***************************************************************************)
(* Text-mode file I/O (open(path, 'r') and open(path, 'w'), newline=None). *)
(* Reading translates "\r\n" and a lone "\r" to "\n"; writing writes each  *)
(* "\n" as the platform's line separator.  "" marks a position that holds  *)
(* no symbol.                                                              *)
(***************************************************************************)
IsSymbol(x) == x # ""

ReadText(b) ==
    SelectSeq([ i \in 1..Len(b) |->
                  IF b[i] = "\r" THEN "\n"
                  ELSE IF b[i] = "\n" /\ i > 1 /\ b[i - 1] = "\r" THEN ""
                  ELSE b[i] ],
              IsSymbol)

WriteText(t, sep) ==
    SelectSeq([ k \in 1..(2 * Len(t)) |->
                  LET c == t[(k + 1) \div 2]
                  IN  IF k % 2 = 1
                      THEN (IF c = "\n" /\ Len(sep) = 2 THEN sep[1] ELSE "")
                      ELSE (IF c = "\n" THEN sep[Len(sep)] ELSE c) ],
              IsSymbol)

LineSeps == { <<"\n">>, <<"\r", "\n">> }

(***************************************************************************)
(* print(x): the text of x and a newline go to standard output.            *)
(***************************************************************************)
EmitLine(out, x) == out \o x \o <<"\n">>

FixedMessage(path) == << "U2713 Fixed onConnected callbacks in " \o path >>

AllDoneMessageOneLine == << "All files updated successfully!" >>

AllDoneMessage == << "\n", "All files updated successfully!" >>

(***************************************************************************)
(* The files before the first run.  A file is a sequence of chunks, each   *)
(* one line or one copy of the callback: as the script expects it, saved   *)
(* with CRLF line endings, or differing from it in one symbol.  The file   *)
(* whose content is varied is empty, or holds an optional first line, up   *)
(* to MaxCopies callbacks (one of any kind, then more of that kind or as   *)
(* the script expects them) and a last line.                               *)
(***************************************************************************)
Bodies == {"blk", "crlf", "ind", "spc", "wrd"}

Chunk(c) ==
    CASE c = "blk"   -> onConnectedBlock \o <<"\n">>
      [] c = "crlf"  -> WriteText(onConnectedBlock \o <<"\n">>, <<"\r", "\n">>)
      [] c = "ind"   -> [onConnectedBlock EXCEPT ![1] = "            chatClient"] \o <<"\n">>
      [] c = "spc"   -> [onConnectedBlock EXCEPT ![7] = "=>"] \o <<"\n">>
      [] c = "wrd"   -> [onConnectedBlock EXCEPT ![2] = "x"] \o <<"\n">>
      [] c = "txt"   -> <<"<script>", "\n">>
      [] c = "crtxt" -> <<"<script>", "\r", "\n">>
      [] c = "end"   -> <<"</script>", "\n">>
      [] c = "none"  -> <<>>

Frames == {"none", "txt", "crtxt"}

RECURSIVE Bytes(_)
Bytes(layout) ==
    IF layout = <<>> THEN <<>> ELSE Chunk(Head(layout)) \o Bytes(Tail(layout))

Layouts ==
    { <<>> } \cup
    { <<f>> \o [i \in 1..n |-> IF i = 1 THEN c[1] ELSE c[2]] \o <<"end">> :
         f \in Frames, c \in { b \in Bodies \X Bodies : b[2] \in {b[1], "blk"} },
         n \in 0..MaxCopies }

\* layout of the two files whose content is not varied
BaseLayout == <<"blk">>

(***************************************************************************)
(* State.                                                                  *)
(***************************************************************************)
VARIABLES
    disk,      \* path -> bytes of the file
    linesep,   \* os.linesep of the platform the script runs on
    idx,       \* position of the for loop in files_and_names
    pc,        \* next statement of the script
    content,   \* the variable content
    handles,   \* open file objects, <<path, mode>>
    stdout,    \* symbols written to standard output in this run
    ops,       \* file reads and writes completed in this run
    failure,   \* <<what stopped the run, loop position>>
    runs,      \* number of the current run
    orig       \* disk as it was when the current run started

vars == <<disk, linesep, idx, pc, content, handles, stdout, ops, failure, runs, orig>>

NoFailure == <<"none", 0>>

Init ==
    /\ \E focus \in Paths, lay \in Layouts :
          disk = [p \in Paths |-> Bytes(IF p = focus THEN lay ELSE BaseLayout)]
    /\ linesep \in LineSeps
    /\ idx = 1
    /\ pc = "open_r"
    /\ content = <<>>
    /\ handles = {}
    /\ stdout = <<>>
    /\ ops = <<>>
    /\ failure = NoFailure
    /\ runs = 1
    /\ orig = disk

Crash(what) ==
    /\ pc' = "crashed"
    /\ failure' = <<what, idx>>
    /\ handles' = {}
    /\ content' = <<>>

(***************************************************************************)
(* with open(file_path, 'r') as f: content = f.read()                      *)
(***************************************************************************)
OpenRead ==
    /\ pc = "open_r"
    /\ handles' = handles \cup {<<file_path(idx), "r">>}
    /\ pc' = "read"
    /\ UNCHANGED <<disk, linesep, idx, content, stdout, ops, failure, runs, orig>>

OpenReadSkip ==
    /\ pc = "open_r"
    /\ failure' = <<"read", idx>>
    /\ idx' = idx + 1
    /\ pc' = IF idx = NumFiles THEN "final" ELSE "open_r"
    /\ UNCHANGED <<disk, linesep, content, handles, stdout, ops, runs, orig>>

\* the file does not exist or may not be read: open raises
OpenReadFail ==
    /\ pc = "open_r"
    /\ Crash("read")
    /\ UNCHANGED <<disk, linesep, idx, stdout, ops, runs, orig>>

ReadNoClose ==
    /\ pc = "read"
    /\ content' = ReadText(disk[file_path(idx)])
    /\ ops' = Append(ops, <<"read", file_path(idx)>>)
    /\ pc' = "sub"
    /\ UNCHANGED <<disk, linesep, idx, handles, stdout, failure, runs, orig>>

Read ==
    /\ pc = "read"
    /\ content' = ReadText(disk[file_path(idx)])
    /\ handles' = handles \ {<<file_path(idx), "r">>}
    /\ ops' = Append(ops, <<"read", file_path(idx)>>)
    /\ pc' = "sub"
    /\ UNCHANGED <<disk, linesep, idx, stdout, failure, runs, orig>>

\* f.read() raises (I/O error, undecodable bytes); the with statement closes f
ReadFail ==
    /\ pc = "read"
    /\ Crash("read")
    /\ UNCHANGED <<disk, linesep, idx, stdout, ops, runs, orig>>

(***************************************************************************)
(* new_callback = f"..."; content = re.sub(old_pattern, new_callback,      *)
(* content)                                                                *)
(***************************************************************************)
Substitute ==
    /\ pc = "sub"
    /\ content' = re_sub(old_pattern, new_callbacks[idx], content)
    /\ pc' = "open_w"
    /\ UNCHANGED <<disk, linesep, idx, handles, stdout, ops, failure, runs, orig>>

(***************************************************************************)
(* with open(file_path, 'w') as f: f.write(content)                        *)
(***************************************************************************)
\* opening for writing truncates the file
OpenWrite ==
    /\ pc = "open_w"
    /\ disk' = [disk EXCEPT ![file_path(idx)] = <<>>]
    /\ handles' = handles \cup {<<file_path(idx), "w">>}
    /\ pc' = "write"
    /\ UNCHANGED <<linesep, idx, content, stdout, ops, failure, runs, orig>>

\* the file may not be written: open raises and the file is as it was
OpenWriteFail ==
    /\ pc = "open_w"
    /\ Crash("write")
    /\ UNCHANGED <<disk, linesep, idx, stdout, ops, runs, orig>>

WriteUnflushed ==
    /\ pc = "write"
    /\ handles' = handles \ {<<file_path(idx), "w">>}
    /\ ops' = Append(ops, <<"write", file_path(idx)>>)
    /\ pc' = "print"
    /\ UNCHANGED <<disk, linesep, idx, content, stdout, failure, runs, orig>>

\* f.write(content) and the close that flushes it
Write ==
    /\ pc = "write"
    /\ disk' = [disk EXCEPT ![file_path(idx)] = WriteText(content, linesep)]
    /\ handles' = handles \ {<<file_path(idx), "w">>}
    /\ ops' = Append(ops, <<"write", file_path(idx)>>)
    /\ pc' = "print"
    /\ UNCHANGED <<linesep, idx, content, stdout, failure, runs, orig>>

\* the write or the flush raises (disk full): the file keeps what reached it
WriteFail ==
    /\ pc = "write"
    /\ \E n \in {0, Len(WriteText(content, linesep)) \div 2} :
          disk' = [disk EXCEPT ![file_path(idx)] = SubSeq(WriteText(content, linesep), 1, n)]
    /\ Crash("write")
    /\ UNCHANGED <<linesep, idx, stdout, ops, runs, orig>>

(***************************************************************************)
(* print(f"... Fixed onConnected callbacks in {file_path}") and the end of *)
(* the loop body; print("\nAll files updated successfully!") after it.     *)
(***************************************************************************)
PrintFixedIfChanged ==
    /\ pc = "print"
    /\ stdout' = IF disk[file_path(idx)] = orig[file_path(idx)] THEN stdout
                 ELSE EmitLine(stdout, FixedMessage(file_path(idx)))
    /\ idx' = idx + 1
    /\ pc' = IF idx = NumFiles THEN "final" ELSE "open_r"
    /\ UNCHANGED <<disk, linesep, content, handles, ops, failure, runs, orig>>

PrintFixed ==
    /\ pc = "print"
    /\ stdout' = EmitLine(stdout, FixedMessage(file_path(idx)))
    /\ idx' = idx + 1
    /\ pc' = IF idx = NumFiles THEN "final" ELSE "open_r"
    /\ UNCHANGED <<disk, linesep, content, handles, ops, failure, runs, orig>>

PrintAll ==
    /\ pc = "final"
    /\ stdout' = EmitLine(stdout, AllDoneMessage)
    /\ pc' = "done"
    /\ UNCHANGED <<disk, linesep, idx, content, handles, ops, failure, runs, orig>>

(***************************************************************************)
(* The process is interrupted or killed.  Inside the with statement of the *)
(* write, the file is left empty (killed, or interrupted before f.write)   *)
(* or complete (interrupted after f.write: the with statement closes f).   *)
(***************************************************************************)
Interrupt ==
    /\ pc \notin {"done", "crashed"}
    /\ IF pc = "write"
       THEN \E b \in {<<>>, WriteText(content, linesep)} :
               disk' = [disk EXCEPT ![file_path(idx)] = b]
       ELSE disk' = disk
    /\ Crash("interrupt")
    /\ UNCHANGED <<linesep, idx, stdout, ops, runs, orig>>

\* the script is started again after a run that went through
Rerun ==
    /\ pc = "done"
    /\ runs < MaxRuns
    /\ runs' = runs + 1
    /\ orig' = disk
    /\ idx' = 1
    /\ pc' = "open_r"
    /\ content' = <<>>
    /\ stdout' = <<>>
    /\ ops' = <<>>
    /\ UNCHANGED <<disk, linesep, handles, failure>>

Next ==
    \/ OpenRead
    \/ OpenReadFail
    \/ Read
    \/ ReadFail
    \/ Substitute
    \/ OpenWrite
    \/ OpenWriteFail
    \/ Write
    \/ WriteFail
    \/ PrintFixed
    \/ PrintAll
    \/ Interrupt
    \/ Rerun

Spec == Init /\ [][Next]_vars

(***************************************************************************)
(* Vocabulary of the properties.                                           *)
(***************************************************************************)
PosOf(p) == CHOOSE i \in 1..NumFiles : file_path(i) = p

\* b occurs in t at position i, symbol for symbol
OccursAt(b, t, i) ==
    /\ i + Len(b) - 1 <= Len(t)
    /\ t[i] = b[1]
    /\ \A j \in 1..Len(b) : t[i + j - 1] = b[j]

Occurrences(b, t) == { i \in 1..Len(t) : OccursAt(b, t, i) }

Count(b, t) == Cardinality(Occurrences(b, t))

IsPrefix(a, b) == Len(a) <= Len(b) /\ \A i \in 1..Len(a) : a[i] = b[i]

\* substitution of the literal block, by comparison of symbols
RECURSIVE LiteralSubFrom(_, _, _, _)
LiteralSubFrom(b, r, s, i) ==
    LET later == { k \in Occurrences(b, s) : k >= i }
    IN  IF later = {} THEN SubSeq(s, i, Len(s))
        ELSE SubSeq(s, i, Min(later) - 1) \o r \o LiteralSubFrom(b, r, s, Min(later) + Len(b))

LiteralSub(b, r, s) == LiteralSubFrom(b, r, s, 1)

\* the lines of standard output
RECURSIVE LinesFrom(_, _, _)
LinesFrom(s, i, cur) ==
    IF i > Len(s) THEN (IF cur = <<>> THEN <<>> ELSE <<cur>>)
    ELSE IF s[i] = "\n" THEN <<cur>> \o LinesFrom(s, i + 1, <<>>)
    ELSE LinesFrom(s, i + 1, Append(cur, s[i]))

Lines(s) == LinesFrom(s, 1, <<>>)

ReadDone(p) == \E i \in 1..Len(ops) : ops[i] = <<"read", p>>

Written(p) == \E i \in 1..Len(ops) : ops[i] = <<"write", p>>

\* the for loop has finished its iteration for p
Past(p) == idx > PosOf(p)

ConfirmationLine(p) ==
    CASE p = "grant-cards.html"      -> <<"U2713 Fixed onConnected callbacks in grant-cards.html">>
      [] p = "etg-agent.html"        -> <<"U2713 Fixed onConnected callbacks in etg-agent.html">>
      [] p = "canexport-claims.html" -> <<"U2713 Fixed onConnected callbacks in canexport-claims.html">>

FinalLine == <<"All files updated successfully!">>

Confirmations(p) == { i \in 1..Len(Lines(stdout)) : Lines(stdout)[i] = ConfirmationLine(p) }

\* every line ending of b is the line separator sep
NativeEndings(b, sep) ==
    IF sep = <<"\n">>
    THEN \A i \in 1..Len(b) : b[i] # "\r"
    ELSE \A i \in 1..Len(b) :
            /\ b[i] = "\n" => (i > 1 /\ b[i - 1] = "\r")
            /\ b[i] = "\r" => (i < Len(b) /\ b[i + 1] = "\n")

Replacement(p) == new_callbacks[PosOf(p)]

(***************************************************************************)
(* C1.  Idempotence: in a run that follows a run that went through, no     *)
(* file holds a match of the search pattern (neither in the bytes on disk  *)
(* nor in the text read from them), and every file the run has written     *)
(* back is byte for byte what it was when the run started.                 *)
(***************************************************************************)
C1_SecondRunChangesNothing ==
    runs >= 2 =>
        \A p \in Paths :
            /\ MatchesFrom(old_pattern, orig[p], 1) = {}
            /\ MatchesFrom(old_pattern, ReadText(orig[p]), 1) = {}
            /\ Written(p) => disk[p] = orig[p]
            /\ pc = "done" => disk[p] = orig[p]

C1_Witness ==
    /\ runs = 2
    /\ pc = "done"
    /\ \E p \in Paths : Count(Replacement(p), ReadText(disk[p])) >= 2

(***************************************************************************)
(* C2 as stated: a file whose bytes hold no occurrence of the search block *)
(* is byte-identical after it has been written back, and its confirmation  *)
(* line is printed.                                                        *)
(***************************************************************************)
C2_NoMatchBytesUnchanged ==
    \A p \in Paths :
        (Written(p) /\ Occurrences(onConnectedBlock, orig[p]) = {}) =>
            /\ disk[p] = orig[p]
            /\ Past(p) => Confirmations(p) # {}

(***************************************************************************)
(* C2 amended: a file whose text, as read in text mode, holds no           *)
(* occurrence of the search block is written back as exactly that text,    *)
(* each "\n" as the platform's line separator, and its confirmation line   *)
(* is printed; the file is byte-identical when all its line endings        *)
(* already were that separator.                                            *)
(***************************************************************************)
C2_NoMatchTextUnchanged ==
    \A p \in Paths :
        LET before == ReadText(orig[p])
        IN  (Written(p) /\ Occurrences(onConnectedBlock, before) = {}) =>
                /\ disk[p] = WriteText(before, linesep)
                /\ ReadText(disk[p]) = before
                /\ NativeEndings(orig[p], linesep) => disk[p] = orig[p]
                /\ Past(p) => Cardinality(Confirmations(p)) = 1

C2_Witness ==
    \E p \in Paths :
        /\ runs = 1
        /\ Written(p)
        /\ Past(p)
        /\ Occurrences(onConnectedBlock, ReadText(orig[p])) = {}
        /\ \E i \in 1..Len(orig[p]) : orig[p][i] = "            chatClient"
        /\ NativeEndings(orig[p], linesep)
        /\ Confirmations(p) # {}

(***************************************************************************)
(* C3.  When the file at position k cannot be read, the run has halted:    *)
(* no file from position k on has been written, no later file has been     *)
(* read, no handle is open, these files are as they were, no confirmation  *)
(* line of file k or of a later file and no final line has been printed.   *)
(***************************************************************************)
C3_ReadFailureHalts ==
    failure[1] = "read" =>
        /\ pc = "crashed"
        /\ handles = {}
        /\ idx = failure[2]
        /\ \A j \in 1..NumFiles :
              /\ j >= failure[2] => /\ ~Written(file_path(j))
                                    /\ Confirmations(file_path(j)) = {}
                                    /\ disk[file_path(j)] = orig[file_path(j)]
              /\ j > failure[2] => ~ReadDone(file_path(j))
        /\ \A i \in 1..Len(stdout) : stdout[i] # "All files updated successfully!"
        /\ Len(Lines(stdout)) = failure[2] - 1

C3_Witness ==
    /\ failure = <<"read", 2>>
    /\ pc = "crashed"
    /\ Written(file_path(1))
    /\ disk[file_path(1)] # orig[file_path(1)]

(***************************************************************************)
(* C4.  When a run has stopped at position k (I/O failure or interrupt),   *)
(* every file before position k holds its patched content and every file   *)
(* after position k holds the bytes it had when the run started.           *)
(***************************************************************************)
Patched(b, p) ==
    WriteText(LiteralSub(onConnectedBlock, Replacement(p), ReadText(b)), linesep)

C4_PartialApplication ==
    pc = "crashed" =>
        \A j \in 1..NumFiles :
            /\ j < idx => /\ disk[file_path(j)] = Patched(orig[file_path(j)], file_path(j))
                          /\ Occurrences(onConnectedBlock, ReadText(disk[file_path(j)])) = {}
            /\ j > idx => disk[file_path(j)] = orig[file_path(j)]

C4_Witness ==
    /\ pc = "crashed"
    /\ runs = 1
    /\ idx = 2
    /\ failure[1] \in {"interrupt", "write"}
    /\ disk[file_path(1)] # orig[file_path(1)]
    /\ disk[file_path(2)] # orig[file_path(2)]
    /\ Occurrences(onConnectedBlock, ReadText(orig[file_path(3)])) # {}

(***************************************************************************)
(* C5.  A file whose text holds n >= 2 occurrences of the search block     *)
(* holds none after it has been written back and n more copies of its      *)
(* replacement than before; its confirmation line is printed once.         *)
(***************************************************************************)
C5_AllOccurrencesReplaced ==
    \A p \in Paths :
        LET before == ReadText(orig[p])
            after  == ReadText(disk[p])
        IN  (Written(p) /\ Count(onConnectedBlock, before) >= 2) =>
                /\ Occurrences(onConnectedBlock, after) = {}
                /\ Occurrences(onConnectedBlock, disk[p]) = {}
                /\ Count(Replacement(p), after)
                      = Count(onConnectedBlock, before) + Count(Replacement(p), before)
                /\ Cardinality(Confirmations(p)) = (IF Past(p) THEN 1 ELSE 0)

C5_Witness ==
    \E p \in Paths :
        /\ Written(p)
        /\ Past(p)
        /\ Count(onConnectedBlock, orig[p]) >= 2
        /\ Count(Replacement(p), ReadText(disk[p])) >= 2
        /\ Cardinality(Confirmations(p)) = 1

(***************************************************************************)
(* Literal texts the replacement is expected to hold, per target file.     *)
(***************************************************************************)
KeyArg(p) ==
    CASE p = "grant-cards.html"      -> "'grant-cards-conversation-id', conversationId"
      [] p = "etg-agent.html"        -> "'etg-writer-conversation-id', conversationId"
      [] p = "canexport-claims.html" -> "'canexport-claims-conversation-id', conversationId"

UrlPath(p) ==
    CASE p = "grant-cards.html"      -> "/grant-cards/chat/"
      [] p = "etg-agent.html"        -> "/etg-writer/chat/"
      [] p = "canexport-claims.html" -> "/canexport-claims/chat/"

KeyArgs == { KeyArg(p) : p \in Paths }

UrlPaths == { UrlPath(p) : p \in Paths }

ConnectedLogLine == SubSeq(onConnectedBlock, 10, 17)

CapturedLogLine == SubSeq(onConnectedBlock, 33, 40)

StorageLine(p) ==
    << "                        localStorage", ".", "setItem", "(", KeyArg(p), ")", ";", "\n" >>

UrlUpdateBlock(p) ==
    << "                        if ", "(", "isFirstMessage", ")", " ", "{", "\n",
       "                            const newUrl = ", "BQ", UrlPath(p), "$", "{", "conversationId", "}", "BQ", ";", "\n",
       "                            window", ".", "history", ".", "pushState", "(", "{", "}", ", '', newUrl", ")", ";", "\n" >>

UrlLogLine ==
    << "                            console", ".", "log", "(", "'U2713 Updated URL to:', newUrl", ")", ";", "\n",
       "                        ", "}", "\n" >>

HoldsExpectedLines(r, p) ==
    /\ Count(ConnectedLogLine, r) = 1
    /\ Count(CapturedLogLine, r) = 1
    /\ Count(StorageLine(p), r) = 1
    /\ Count(UrlUpdateBlock(p), r) = 1
    /\ Count(UrlLogLine, r) = 1

ReplacementsHoldExpectedLines == \A p \in Paths : HoldsExpectedLines(Replacement(p), p)

(***************************************************************************)
(* C6 as stated: a file whose bytes are prefix + search block + suffix     *)
(* with one occurrence of the block holds, after it has been written back, *)
(* prefix + replacement + suffix, prefix and suffix unchanged, and the     *)
(* replacement holds the expected lines.                                   *)
(***************************************************************************)
C6_OneMatchBytes ==
    \A p \in Paths :
        (Written(p) /\ Count(onConnectedBlock, orig[p]) = 1) =>
            LET i == CHOOSE k \in Occurrences(onConnectedBlock, orig[p]) : TRUE
            IN  /\ disk[p] = SubSeq(orig[p], 1, i - 1) \o Replacement(p)
                               \o SubSeq(orig[p], i + Len(onConnectedBlock), Len(orig[p]))
                /\ ReplacementsHoldExpectedLines

(***************************************************************************)
(* C6 amended: a file whose text, as read in text mode, is prefix + search *)
(* block + suffix with one occurrence of the block is written back as the  *)
(* text prefix + replacement + suffix, each "\n" as the platform's line    *)
(* separator; the replacement holds the two original log lines, the        *)
(* storage write keyed by the identifier, the URL update under the         *)
(* first-message flag and the additional log line.  Prefix and suffix are  *)
(* byte-identical when the file's line endings already were that           *)
(* separator.                                                              *)
(***************************************************************************)
C6_OneMatchText ==
    \A p \in Paths :
        LET t == ReadText(orig[p])
            i == CHOOSE k \in Occurrences(onConnectedBlock, t) : TRUE
            pre == SubSeq(t, 1, i - 1)
            suf == SubSeq(t, i + Len(onConnectedBlock), Len(t))
        IN  (Written(p) /\ Count(onConnectedBlock, t) = 1) =>
                /\ disk[p] = WriteText(pre \o Replacement(p) \o suf, linesep)
                /\ ReadText(disk[p]) = pre \o Replacement(p) \o suf
                /\ ReplacementsHoldExpectedLines
                /\ NativeEndings(orig[p], linesep) =>
                      /\ orig[p] = WriteText(pre, linesep)
                                     \o WriteText(onConnectedBlock, linesep)
                                     \o WriteText(suf, linesep)
                      /\ disk[p] = WriteText(pre, linesep)
                                     \o WriteText(Replacement(p), linesep)
                                     \o WriteText(suf, linesep)

C6_Witness ==
    \E p \in Paths :
        /\ Written(p)
        /\ Count(onConnectedBlock, ReadText(orig[p])) = 1
        /\ Len(orig[p]) > Len(onConnectedBlock) + 2
        /\ orig[p][1] = "<script>"
        /\ Count(Replacement(p), ReadText(disk[p])) = 1

(***************************************************************************)
(* C7 as stated: the lines of standard output are a prefix of the three    *)
(* confirmation lines, in list order, followed by the final line.          *)
(***************************************************************************)
C7_OutputFourLines ==
    IsPrefix(Lines(stdout),
             << ConfirmationLine(file_path(1)), ConfirmationLine(file_path(2)),
                ConfirmationLine(file_path(3)), FinalLine >>)

(***************************************************************************)
(* C7 amended: the lines of standard output are a prefix of the three      *)
(* confirmation lines, in list order, followed by an empty line and the    *)
(* final line, which the last print writes together; the confirmation of a *)
(* file is printed only after that file has been written and closed, and   *)
(* the final line only after all three files have been.                    *)
(***************************************************************************)
C7_OutputOrder ==
    LET out == Lines(stdout)
    IN  /\ IsPrefix(out, << ConfirmationLine(file_path(1)), ConfirmationLine(file_path(2)),
                            ConfirmationLine(file_path(3)), <<>>, FinalLine >>)
        /\ Len(out) # NumFiles + 1
        /\ \A k \in 1..NumFiles :
              Len(out) >= k => /\ Written(file_path(k))
                               /\ <<file_path(k), "w">> \notin handles
        /\ Len(out) > NumFiles => /\ pc = "done"
                                  /\ \A p \in Paths : Written(p)

C7_Witness ==
    /\ pc = "done"
    /\ Len(Lines(stdout)) = NumFiles + 2
    /\ Lines(stdout)[NumFiles + 2] = FinalLine

(***************************************************************************)
(* C8.  The file operations of a run are a prefix of read f1, write f1,    *)
(* read f2, write f2, read f3, write f3; at most one file is open at any   *)
(* time, it is the file of the current iteration, and it is open for       *)
(* writing only once it has been read and closed.                          *)
(***************************************************************************)
C8_SequentialFileAccess ==
    /\ IsPrefix(ops, << <<"read", file_path(1)>>, <<"write", file_path(1)>>,
                        <<"read", file_path(2)>>, <<"write", file_path(2)>>,
                        <<"read", file_path(3)>>, <<"write", file_path(3)>> >>)
    /\ Cardinality(handles) <= 1
    /\ \A h \in handles :
          /\ idx <= NumFiles
          /\ h[1] = file_path(idx)
          /\ h[2] = "w" => ReadDone(h[1])
          /\ h[2] = "r" => ~ReadDone(h[1])

C8_Witness ==
    /\ pc = "write"
    /\ idx = 3
    /\ handles = {<<file_path(3), "w">>}
    /\ Len(ops) = 5

(***************************************************************************)
(* C9.  The replacement written into a file is built from the identifier   *)
(* paired with that file: it holds the storage key and the URL path of     *)
(* that identifier, and the file holds no key or path of another one.      *)
(***************************************************************************)
ReplacementsHoldOwnIdentifier ==
    \A p \in Paths :
        /\ Count(<<KeyArg(p)>>, Replacement(p)) = 1
        /\ Count(<<UrlPath(p)>>, Replacement(p)) = 1

C9_ReplacementUsesOwnIdentifier ==
    \A p \in Paths :
        /\ ReplacementsHoldOwnIdentifier
        /\ Written(p) =>
              /\ \A i \in 1..Len(disk[p]) :
                    /\ disk[p][i] \in KeyArgs => disk[p][i] = KeyArg(p)
                    /\ disk[p][i] \in UrlPaths => disk[p][i] = UrlPath(p)
              /\ Occurrences(onConnectedBlock, ReadText(orig[p])) # {} =>
                    /\ Occurrences(<<KeyArg(p)>>, disk[p]) # {}
                    /\ Occurrences(<<UrlPath(p)>>, disk[p]) # {}

C9_Witness ==
    /\ pc = "done"
    /\ runs = 1
    /\ \A p \in Paths : /\ Occurrences(<<KeyArg(p)>>, disk[p]) # {}
                        /\ Occurrences(<<UrlPath(p)>>, disk[p]) # {}

(***************************************************************************)
(* C10 as stated: the pattern matches the literal block only, a run        *)
(* changes the bytes of a file only where that block occurs, and a block   *)
(* that differs in indentation, spacing, line ending or wording is left    *)
(* as it was.                                                              *)
(***************************************************************************)
NearMisses == {"crlf", "ind", "spc", "wrd"}

C10_OnlyExactBlockBytes ==
    \A p \in Paths :
        Written(p) =>
            /\ disk[p] = LiteralSub(onConnectedBlock, Replacement(p), orig[p])
            /\ \A c \in NearMisses : Count(Chunk(c), disk[p]) = Count(Chunk(c), orig[p])

(***************************************************************************)
(* C10 amended: the pattern matches the literal block only (every regex    *)
(* metacharacter is escaped), and a run changes the text of a file, as     *)
(* read in text mode, only where that block occurs: a block that differs   *)
(* in indentation, spacing or wording is left as it was, a block saved     *)
(* with "\r\n" line endings is read as the block and replaced, and line    *)
(* endings are written as the platform's line separator.                   *)
(***************************************************************************)
PatternMatchesBlockOnly ==
    \A c \in Bodies :
        /\ MatchAt(old_pattern, Chunk(c), 1) <=> OccursAt(onConnectedBlock, Chunk(c), 1)
        /\ MatchAt(old_pattern, ReadText(Chunk(c)), 1)
              <=> OccursAt(onConnectedBlock, ReadText(Chunk(c)), 1)

C10_OnlyExactBlockText ==
    /\ PatternMatchesBlockOnly
    /\ \A p \in Paths :
          Written(p) =>
              LET before == ReadText(orig[p])
                  after  == ReadText(disk[p])
              IN  /\ disk[p] = WriteText(LiteralSub(onConnectedBlock, Replacement(p), before),
                                         linesep)
                  /\ \A c \in NearMisses \ {"crlf"} :
                        Count(Chunk(c), after) = Count(Chunk(c), before)
                  /\ Count(Chunk("crlf"), disk[p]) = 0

C10_Witness ==
    \E p \in Paths :
        /\ Written(p)
        /\ runs = 1
        /\ Count(Chunk("crlf"), orig[p]) = 1
        /\ Occurrences(onConnectedBlock, orig[p]) = {}
        /\ Count(Replacement(p), ReadText(disk[p])) = 1

=============================================================================
